---- MODULE Spec2Model ----
(***************************************************************************)
(* Voice bot: the browser session of App.js (VoiceBot component) and the   *)
(* /api/ask proxy of server.js (rate limiter and retrying upstream call).  *)
(* The client and the server are checked under two specifications, Spec    *)
(* and ServerSpec, over one set of variables.                              *)
(***************************************************************************)
EXTENDS Integers, Sequences, FiniteSets, TLC

VARIABLES
    \* ---- client: React state of VoiceBot (App.js 5-10)
    isListening, isProcessing, isSpeaking, conversation, currentTranscript, error,
    \* ---- client: the platform objects behind recognitionRef / synthRef
    recState,      \* SpeechRecognition session phase
    inflight,      \* onresult continuations suspended at "await callGeminiAPI"
    synthState,    \* speechSynthesis engine: "idle" or "speaking"
    synthEvents,   \* utterance events posted by the engine, not yet delivered
    stale,         \* how many events at the head of synthEvents belong to
                   \* utterances cancelled by a stopSpeaking issued while speaking
    uncaught,      \* an event handler has thrown (InvalidStateError of start())
    \* ---- server: server.js
    rateLimitStore, now, ticks, reqs,
    admitted,      \* per caller: requests admitted since its record was last
                   \* created or replaced
    lastCaller,    \* req.ip of the request that arrived last
    admitLog       \* per caller: the times of the admissions of the last 60 s
                   \* (kept under LimiterSpec only)

clientVars == <<isListening, isProcessing, isSpeaking, conversation,
                currentTranscript, error, recState, inflight, synthState,
                synthEvents, stale, uncaught>>
serverVars == <<rateLimitStore, now, ticks, reqs, admitted, lastCaller,
                admitLog>>
vars == <<isListening, isProcessing, isSpeaking, conversation,
          currentTranscript, error, recState, inflight, synthState,
          synthEvents, stale, uncaught, rateLimitStore, now, ticks, reqs,
          admitted, lastCaller, admitLog>>

----------------------------------------------------------------------------
(* Bounds *)

MaxTurns == 4          \* turns kept in the transcript
MaxSynthEvents == 4    \* undelivered utterance events

MaxTicks == 2          \* clock advances
MaxReqs == 1           \* requests being handled at the same time
MaxLog == 22           \* admissions of one caller remembered in admitLog

Transcripts == {"hello", ""}     \* the recognizer may return an empty transcript
Responses == {"hi there"}
RecErrorKinds == {"network", "audio-capture"}    \* a named case and the default
SynthEndKinds == {"end", "error"}

----------------------------------------------------------------------------
(* Client helpers *)

ApiFailMessage == "Failed to get AI response. Please try again."

\* switch (event.error) of recognition.onerror
RecErrorMessage(kind) ==
    CASE kind = "network" -> "Network error. Please check your internet connection and try again. Note: HTTPS may be required."
      [] kind = "not-allowed" -> "Microphone access denied. Please allow microphone permissions and refresh the page."
      [] kind = "no-speech" -> "No speech detected. Please try speaking again."
      [] kind = "aborted" -> "Speech recognition was aborted."
      [] OTHER -> "Speech recognition error: audio-capture"

UserTurn(text) == [type |-> "user", text |-> text]
BotTurn(text) == [type |-> "bot", text |-> text]

\* a setConversation that drops the previous turns
AppendTurnDroppingPrev(prev, turn) == <<turn>>

\* setConversation(prev => [...prev, turn])
AppendTurn(prev, turn) == Append(prev, turn)

\* setConversation([])
ClearedConversation == << >>

\* synthRef.current.cancel(): a speaking utterance is stopped and its final
\* event (end, or error "interrupted"/"canceled") is posted asynchronously;
\* events already posted stay in the queue.
CancelEvents(state, events, fin) ==
    IF state = "speaking" THEN Append(events, fin) ELSE events

\* callGeminiAPI (110-125): one fetch; a rejected fetch (transport failure)
\* and a response that is not ok both throw, otherwise data.response.
\* A completion is [status |-> 0] for a transport failure, else the HTTP
\* status, with the body's response text.
HttpOk(status) == status >= 200 /\ status <= 299
CallGeminiThrows(completion) == ~HttpOk(completion.status)
CallGeminiValue(completion) == completion.text

Completions ==
    [status : {200}, text : Responses] \cup [status : {0, 400, 429, 500}, text : {""}]

Max(a, b) == IF a >= b THEN a ELSE b

IsPrefix(s, t) == Len(s) <= Len(t) /\ SubSeq(t, 1, Len(s)) = s

----------------------------------------------------------------------------
(* Client: initial state (useState initialisers, refs set by the effect) *)

ClientInit ==
    /\ isListening = FALSE
    /\ isProcessing = FALSE
    /\ isSpeaking = FALSE
    /\ conversation = << >>
    /\ currentTranscript = ""
    /\ error = ""
    /\ recState = "inactive"
    /\ inflight = 0
    /\ synthState = "idle"
    /\ synthEvents = << >>
    /\ stale = 0
    /\ uncaught = FALSE

----------------------------------------------------------------------------
(* Client: user operations *)

\* startListening (145-151).  recognition.start() on a recognizer that is
\* already started throws InvalidStateError out of the handler.
StartListening ==
    /\ UNCHANGED <<isListening, isProcessing, isSpeaking, conversation,
                   inflight, synthState, synthEvents, stale>>
    /\ IF isListening \/ isProcessing
       THEN UNCHANGED <<error, currentTranscript, recState, uncaught>>
       ELSE /\ error' = ""
            /\ currentTranscript' = ""
            /\ IF recState = "inactive"
               THEN recState' = "starting" /\ UNCHANGED uncaught
               ELSE uncaught' = TRUE /\ UNCHANGED recState

\* stopListening (153-157).  stop() asks the recognizer to stop capturing
\* and to return a result from the audio captured so far.
StopListening ==
    /\ UNCHANGED <<isListening, isProcessing, isSpeaking, conversation,
                   currentTranscript, error, inflight, synthState,
                   synthEvents, stale, uncaught>>
    /\ IF isListening /\ recState = "capturing"
       THEN recState' = "stopped"
       ELSE UNCHANGED recState

\* The microphone button (216-226): disabled while processing, bound to
\* stopListening while listening and to startListening otherwise.
ClickMic ==
    /\ ~isProcessing
    /\ IF isListening THEN StopListening ELSE StartListening
    /\ UNCHANGED serverVars

\* stopSpeaking (159-164)
StopSpeakingEffect(fin) ==
    /\ synthEvents' = CancelEvents(synthState, synthEvents, fin)
    /\ synthState' = "idle"
    /\ isSpeaking' = FALSE
    /\ stale' = IF isSpeaking THEN Len(synthEvents') ELSE stale

\* The stop-speech button (228-235), rendered only while speaking.
StopSpeaking ==
    /\ isSpeaking
    /\ \E fin \in SynthEndKinds : StopSpeakingEffect(fin)
    /\ UNCHANGED <<isListening, isProcessing, conversation, currentTranscript,
                   error, recState, inflight, uncaught>>
    /\ UNCHANGED serverVars

\* clearConversation (166-171), button rendered while the transcript is
\* not empty (237-244).
ClearConversation ==
    /\ Len(conversation) > 0
    /\ conversation' = ClearedConversation
    /\ currentTranscript' = ""
    /\ error' = ""
    /\ \E fin \in SynthEndKinds : StopSpeakingEffect(fin)
    /\ UNCHANGED <<isListening, isProcessing, recState, inflight, uncaught>>
    /\ UNCHANGED serverVars

----------------------------------------------------------------------------
(* Client: recognition callbacks (35-94).  One session of the non-continuous
   recognizer delivers start first and end last; in between it delivers at
   most one result and at most one error, the error possibly after the
   result. *)

\* recognition.onstart (35-39)
RecOnStart ==
    /\ recState = "starting"
    /\ recState' = "capturing"
    /\ isListening' = TRUE
    /\ error' = ""
    /\ UNCHANGED <<isProcessing, isSpeaking, conversation, currentTranscript,
                   inflight, synthState, synthEvents, stale, uncaught>>
    /\ UNCHANGED serverVars

\* recognition.onresult (41-65) up to its await: the user turn is appended
\* and the fetch of callGeminiAPI is issued.
RecOnResult ==
    /\ recState \in {"capturing", "stopped"}
    /\ Len(conversation) + inflight + 2 <= MaxTurns
    /\ \E transcript \in Transcripts :
         /\ currentTranscript' = transcript
         /\ conversation' = AppendTurn(conversation, UserTurn(transcript))
    /\ isListening' = FALSE
    /\ isProcessing' = TRUE
    /\ inflight' = inflight + 1
    /\ recState' = "resulted"
    /\ UNCHANGED <<isSpeaking, error, synthState, synthEvents, stale, uncaught>>
    /\ UNCHANGED serverVars

\* recognition.onerror (67-90)
RecOnError ==
    /\ recState \in {"starting", "capturing", "stopped", "resulted"}
    /\ recState' = "ending"
    /\ isListening' = FALSE
    /\ isProcessing' = FALSE
    /\ \E kind \in RecErrorKinds : error' = RecErrorMessage(kind)
    /\ UNCHANGED <<isSpeaking, conversation, currentTranscript, inflight,
                   synthState, synthEvents, stale, uncaught>>
    /\ UNCHANGED serverVars

\* recognition.onend (92-94)
RecOnEnd ==
    /\ recState \in {"capturing", "stopped", "resulted", "ending"}
    /\ recState' = "inactive"
    /\ isListening' = FALSE
    /\ UNCHANGED <<isProcessing, isSpeaking, conversation, currentTranscript,
                   error, inflight, synthState, synthEvents, stale, uncaught>>
    /\ UNCHANGED serverVars

----------------------------------------------------------------------------
(* Client: the continuation of onresult after the await (52-64) *)

\* speakText (127-143): cancel, then speak a new utterance, which the idle
\* engine starts at once, posting its start event.
SpeakTextEvents(state, events, fin) ==
    Append(CancelEvents(state, events, fin), "start")

\* try branch: bot turn, speakText, then finally
AnswerReady ==
    /\ inflight > 0
    /\ Len(synthEvents) + 2 <= MaxSynthEvents
    /\ \E completion \in Completions :
         /\ ~CallGeminiThrows(completion)
         /\ conversation' = AppendTurn(conversation, BotTurn(CallGeminiValue(completion)))
    /\ \E fin \in SynthEndKinds :
         synthEvents' = SpeakTextEvents(synthState, synthEvents, fin)
    /\ synthState' = "speaking"
    /\ isProcessing' = FALSE
    /\ inflight' = inflight - 1
    /\ UNCHANGED <<isListening, isSpeaking, currentTranscript, error,
                   recState, stale, uncaught>>
    /\ UNCHANGED serverVars

\* a catch branch without the finally: isProcessing is left set
AnswerFailedWithoutFinally ==
    /\ inflight > 0
    /\ \E completion \in Completions : CallGeminiThrows(completion)
    /\ error' = ApiFailMessage
    /\ inflight' = inflight - 1
    /\ UNCHANGED <<isListening, isProcessing, isSpeaking, conversation,
                   currentTranscript, recState, synthState, synthEvents,
                   stale, uncaught>>
    /\ UNCHANGED serverVars

\* catch branch, then finally
AnswerFailed ==
    /\ inflight > 0
    /\ \E completion \in Completions : CallGeminiThrows(completion)
    /\ error' = ApiFailMessage
    /\ isProcessing' = FALSE
    /\ inflight' = inflight - 1
    /\ UNCHANGED <<isListening, isSpeaking, conversation, currentTranscript,
                   recState, synthState, synthEvents, stale, uncaught>>
    /\ UNCHANGED serverVars

----------------------------------------------------------------------------
(* Client: utterance events (138-140), delivered in the order posted *)

\* The engine reaches the end of the utterance.
SynthFinishes ==
    /\ synthState = "speaking"
    /\ synthState' = "idle"
    /\ synthEvents' = Append(synthEvents, "end")
    /\ UNCHANGED <<isListening, isProcessing, isSpeaking, conversation,
                   currentTranscript, error, recState, inflight, stale, uncaught>>
    /\ UNCHANGED serverVars

\* utterance.onstart / onend / onerror
UtteranceEvent ==
    /\ synthEvents # << >>
    /\ isSpeaking' = (Head(synthEvents) = "start")
    /\ synthEvents' = Tail(synthEvents)
    /\ stale' = Max(stale - 1, 0)
    /\ UNCHANGED <<isListening, isProcessing, conversation, currentTranscript,
                   error, recState, inflight, synthState, uncaught>>
    /\ UNCHANGED serverVars

ClientNext ==
    \/ ClickMic
    \/ StopSpeaking
    \/ ClearConversation
    \/ RecOnStart
    \/ RecOnResult
    \/ RecOnError
    \/ RecOnEnd
    \/ AnswerReady
    \/ AnswerFailed
    \/ SynthFinishes
    \/ UtteranceEvent

----------------------------------------------------------------------------
(* Server: rate limiter (358-388) *)

WindowMs == 60000
RateLimitMax == 10
InitialRetries == 3
MaxQuestionLen == 1000

Callers == {"ip1", "ip2"}
ReqIds == 1..MaxReqs
TickSteps == {WindowMs}   \* a step reaches the end of a window opened before it (now = resetTime), a second step passes it
NoRecord == [count |-> 0, resetTime |-> 0]

\* a limiter that compares the count with <= instead of <
RateLimitAdmitsOffByOne(store, clientId, t) ==
    \/ store[clientId] = NoRecord
    \/ t > store[clientId].resetTime
    \/ store[clientId].count <= RateLimitMax

\* the three branches of rateLimit that call next()
RateLimitAdmits(store, clientId, t) ==
    \/ store[clientId] = NoRecord
    \/ t > store[clientId].resetTime
    \/ store[clientId].count < RateLimitMax

\* a limiter that also counts the requests it rejects
RateLimitStoreAfterCountingRejected(store, clientId, t) ==
    IF store[clientId] = NoRecord \/ t > store[clientId].resetTime
    THEN [store EXCEPT ![clientId] = [count |-> 1, resetTime |-> t + WindowMs]]
    ELSE [store EXCEPT ![clientId].count = @ + 1]

\* a limiter that forgets record.count++ in an open window
RateLimitStoreAfterNotCounting(store, clientId, t) ==
    IF store[clientId] = NoRecord \/ t > store[clientId].resetTime
    THEN [store EXCEPT ![clientId] = [count |-> 1, resetTime |-> t + WindowMs]]
    ELSE store

\* rateLimitStore after rateLimit has run for clientId at time t
RateLimitStoreAfter(store, clientId, t) ==
    IF store[clientId] = NoRecord \/ t > store[clientId].resetTime
    THEN [store EXCEPT ![clientId] = [count |-> 1, resetTime |-> t + WindowMs]]
    ELSE IF store[clientId].count >= RateLimitMax
         THEN store
         ELSE [store EXCEPT ![clientId].count = @ + 1]

----------------------------------------------------------------------------
(* Server: POST /api/ask (391-438) *)

\* request bodies: question absent, a number, or a string of some length
Questions ==
    {[kind |-> "missing", len |-> 0], [kind |-> "number", len |-> 0]}
        \cup [kind : {"string"}, len : {0, 1, MaxQuestionLen, MaxQuestionLen + 1}]

\* a length check written with >= : a question of exactly 1000 is refused
QuestionRejectedAtLimit(q) ==
    \/ q.kind # "string"
    \/ q.len = 0
    \/ q.len >= MaxQuestionLen

\* !question || typeof question !== 'string', then question.length > 1000
QuestionRejected(q) ==
    \/ q.kind # "string"
    \/ q.len = 0
    \/ q.len > MaxQuestionLen

\* messages of the errors thrown by generateContent / response.text()
UpstreamErrors == [has429 : BOOLEAN, hasQuota : BOOLEAN]

\* a catch block that retries only on '429'
IsRetryableOnly429(err) == err.has429

\* a catch block that retries on every error
IsRetryableAlways(err) == TRUE

\* error.message.includes('429') || error.message.includes('quota')
IsRetryable(err) == err.has429 \/ err.hasQuota

\* a loop that retries once more than its budget
RetryAgainOffByOne(retries) == retries >= 0

\* if (retries > 0) after retries--
RetryAgain(retries) == retries > 0

\* what the upstream did on a request's latest call: nothing yet, a
\* result, an error that carries a 429/quota indication, or another error
FailedWith(err) ==
    IF err.has429 \/ err.hasQuota THEN "quotaError" ELSE "otherError"

\* One request after rateLimit has read req.ip: where its handler stands
\* (pc), the stage that answered it, the number of responses sent,
\* the local "retries", and a record of its upstream calls (calls, fails,
\* last) and of the response sent (status, response).
FreeReq ==
    [pc |-> "free", stage |-> "none", retries |-> 0,
     calls |-> 0, fails |-> 0, last |-> "none", status |-> 0, response |-> "",
     sent |-> 0]

\* res.status(status).json(...), followed by the handler's return
Respond(req, stage, status, text) ==
    [req EXCEPT !.pc = "done", !.stage = stage, !.status = status,
                !.response = text, !.sent = @ + 1]

\* a loop condition that stops one round early
LoopContinuesAboveOne(retries) == retries > 1

\* while (retries > 0)
LoopContinues(retries) == retries > 0

\* The top of the retry loop (410-412): the next generateContent call, or,
\* were the loop to end, res.json({ response }) with response never set.
LoopTop(req) ==
    IF LoopContinues(req.retries)
    THEN [req EXCEPT !.pc = "calling", !.stage = "upstream", !.calls = @ + 1]
    ELSE Respond(req, "upstream", 200, "")

ServerInit ==
    /\ rateLimitStore = [c \in Callers |-> NoRecord]
    /\ now = 0
    /\ ticks = 0
    /\ reqs = [r \in ReqIds |-> FreeReq]
    /\ admitted = [c \in Callers |-> 0]
    /\ lastCaller = "none"
    /\ admitLog = [c \in Callers |-> << >>]

\* the admissions logged at time t - 60 s or later
RecentAdmissions(log, t) == SelectSeq(log, LAMBDA x : x >= t - 60000)

\* Date.now() advances
Tick ==
    /\ ticks < MaxTicks
    /\ ticks' = ticks + 1
    /\ \E d \in TickSteps : now' = now + d
    /\ admitLog' = [c \in Callers |-> RecentAdmissions(admitLog[c], now')]
    /\ UNCHANGED <<rateLimitStore, reqs, admitted, lastCaller>>
    /\ UNCHANGED clientVars

\* rateLimit (362-388) alone, for a request from clientId: what the
\* middleware does to the store, whatever the handler behind next() does.
RateLimitRuns(clientId) ==
    /\ Len(admitLog[clientId]) < MaxLog
    /\ lastCaller' = clientId
    /\ rateLimitStore' = RateLimitStoreAfter(rateLimitStore, clientId, now)
    /\ admitted' = [admitted EXCEPT ![clientId] =
         IF ~RateLimitAdmits(rateLimitStore, clientId, now) THEN @
         ELSE IF rateLimitStore'[clientId].resetTime # rateLimitStore[clientId].resetTime
              THEN 1 ELSE @ + 1]
    /\ admitLog' = [admitLog EXCEPT ![clientId] =
         IF RateLimitAdmits(rateLimitStore, clientId, now) THEN Append(@, now) ELSE @]
    /\ UNCHANGED <<now, ticks, reqs>>
    /\ UNCHANGED clientVars

\* ArriveWith with the validation placed before the limiter: a refused
\* question is answered 400 without being counted.
ArriveWithValidationFirst(r, clientId, q) ==
    /\ reqs[r].pc = "free"
    /\ lastCaller' = clientId
    /\ rateLimitStore' = IF QuestionRejected(q) THEN rateLimitStore
                         ELSE RateLimitStoreAfter(rateLimitStore, clientId, now)
    /\ reqs' = [reqs EXCEPT ![r] =
         IF QuestionRejected(q)
         THEN Respond(FreeReq, "validate", 400, "")
         ELSE IF ~RateLimitAdmits(rateLimitStore, clientId, now)
              THEN Respond(FreeReq, "rateLimit", 429, "")
              ELSE LoopTop([FreeReq EXCEPT !.retries = InitialRetries])]
    /\ admitted' = [admitted EXCEPT ![clientId] =
         IF QuestionRejected(q) \/ ~RateLimitAdmits(rateLimitStore, clientId, now)
         THEN @
         ELSE IF rateLimitStore'[clientId].resetTime # rateLimitStore[clientId].resetTime
              THEN 1 ELSE @ + 1]
    /\ UNCHANGED <<now, ticks, admitLog>>
    /\ UNCHANGED clientVars

\* A request from clientId with body question q arrives: rateLimit, then
\* the handler up to its first await (validation, then the first
\* generateContent call).
ArriveWith(r, clientId, q) ==
    /\ reqs[r].pc = "free"
    /\ lastCaller' = clientId
    /\ rateLimitStore' = RateLimitStoreAfter(rateLimitStore, clientId, now)
    /\ reqs' = [reqs EXCEPT ![r] =
         IF ~RateLimitAdmits(rateLimitStore, clientId, now)
         THEN Respond(FreeReq, "rateLimit", 429, "")
         ELSE IF QuestionRejected(q)
              THEN Respond(FreeReq, "validate", 400, "")
              ELSE LoopTop([FreeReq EXCEPT !.retries = InitialRetries])]
    /\ admitted' = [admitted EXCEPT ![clientId] =
         IF ~RateLimitAdmits(rateLimitStore, clientId, now) THEN @
         ELSE IF rateLimitStore'[clientId].resetTime # rateLimitStore[clientId].resetTime
              THEN 1 ELSE @ + 1]
    /\ UNCHANGED <<now, ticks, admitLog>>
    /\ UNCHANGED clientVars

Arrive(r) == \E clientId \in Callers, q \in Questions : ArriveWith(r, clientId, q)

\* generateContent resolves and response.text() returns: break, res.json
UpstreamSucceeds(r) ==
    /\ reqs[r].pc = "calling"
    /\ \E text \in Responses :
         reqs' = [reqs EXCEPT ![r] =
                    Respond([reqs[r] EXCEPT !.last = "result"], "upstream", 200, text)]
    /\ UNCHANGED <<rateLimitStore, now, ticks, admitted, lastCaller, admitLog>>
    /\ UNCHANGED clientVars

\* the inner catch (415-427)
UpstreamFails(r) ==
    /\ reqs[r].pc = "calling"
    /\ \E err \in UpstreamErrors :
         LET thrown == [reqs[r] EXCEPT !.last = FailedWith(err)] IN
         reqs' = [reqs EXCEPT ![r] =
            IF IsRetryable(err)
            THEN LET left == reqs[r].retries - 1
                     failed == [thrown EXCEPT !.retries = left, !.fails = @ + 1]
                 IN  IF RetryAgain(left)
                     THEN [failed EXCEPT !.pc = "waiting"]
                     ELSE Respond(failed, "upstream", 429, "")
            ELSE Respond(thrown, "upstream", 500, "")]
    /\ UNCHANGED <<rateLimitStore, now, ticks, admitted, lastCaller, admitLog>>
    /\ UNCHANGED clientVars

\* the 2 second timer fires: continue, next generateContent call
DelayElapsed(r) ==
    /\ reqs[r].pc = "waiting"
    /\ reqs' = [reqs EXCEPT ![r] = LoopTop(reqs[r])]
    /\ UNCHANGED <<rateLimitStore, now, ticks, admitted, lastCaller, admitLog>>
    /\ UNCHANGED clientVars

\* the response has been sent; the handler's locals are gone
Finish(r) ==
    /\ reqs[r].pc = "done"
    /\ reqs' = [reqs EXCEPT ![r] = FreeReq]
    /\ UNCHANGED <<rateLimitStore, now, ticks, admitted, lastCaller, admitLog>>
    /\ UNCHANGED clientVars

LimiterNext ==
    \/ Tick
    \/ \E clientId \in Callers : RateLimitRuns(clientId)

ServerNext ==
    \/ Tick
    \/ \E r \in ReqIds : Arrive(r)
    \/ \E r \in ReqIds : UpstreamSucceeds(r)
    \/ \E r \in ReqIds : UpstreamFails(r)
    \/ \E r \in ReqIds : DelayElapsed(r)
    \/ \E r \in ReqIds : Finish(r)

----------------------------------------------------------------------------
(* Properties of the client session (checked under Spec) *)

Idle == ~isListening /\ ~isProcessing /\ ~isSpeaking

\* the session state and transcript that an ignored operation must leave alone
SessionUnchanged ==
    UNCHANGED <<isListening, isProcessing, isSpeaking, error, conversation, recState>>

\* C1: at most one of isListening, isProcessing, isSpeaking is true in
\* every reachable state.
MutualExclusion ==
    /\ ~(isListening /\ isProcessing)
    /\ ~(isListening /\ isSpeaking)
    /\ ~(isProcessing /\ isSpeaking)

\* C2: an operation invoked from an invalid source state changes neither
\* the session state nor the transcript: startListening outside Idle, a
\* recognition result outside Listening, an answer completion outside
\* Processing, stopSpeaking or a speech-finished event outside Speaking.
InvalidSourceIsNoOp ==
    [][ /\ (ClickMic /\ ~isListening /\ ~Idle) => SessionUnchanged
        /\ (RecOnResult /\ ~isListening) => SessionUnchanged
        /\ ((AnswerReady \/ AnswerFailed) /\ ~isProcessing) => SessionUnchanged
        /\ (StopSpeaking /\ ~isSpeaking) => SessionUnchanged
        /\ (UtteranceEvent /\ Head(synthEvents) # "start" /\ ~isSpeaking)
              => SessionUnchanged ]_vars

\* C3: every step keeps the previous transcript as a prefix of the new
\* one, except a clearConversation step, which leaves it empty.
TranscriptAppendOnly ==
    [][ \/ IsPrefix(conversation, conversation')
        \/ (ClearConversation /\ conversation' = << >>) ]_vars

\* a transcript that was cleared while a request was pending and then
\* received the answer of that request
TranscriptClearedThenAppended ==
    /\ Len(conversation) >= 1
    /\ conversation[1].type = "bot"

\* C7: stopSpeaking invoked while Speaking leaves isSpeaking false and the
\* session Idle, and no event of a cancelled utterance delivered later sets
\* isSpeaking to true.
StopSpeakingIsFinal ==
    [][ /\ (StopSpeaking /\ isSpeaking) => Idle'
        /\ (UtteranceEvent /\ stale > 0) => ~isSpeaking' ]_vars

\* C8: clearConversation leaves the transcript empty, the error cleared
\* and all three activity flags false, whatever the state it is invoked in.
ClearForcesIdle ==
    [][ ClearConversation =>
          /\ conversation' = << >>
          /\ error' = ""
          /\ Idle' ]_vars

\* C9: a failed answer request returns the session to Idle with a
\* non-empty error, leaves the transcript as it was (user turn kept, no bot
\* turn) and starts no speech synthesis.
FailureReturnsToIdle ==
    [][ AnswerFailed =>
          /\ Idle'
          /\ error' # ""
          /\ conversation' = conversation
          /\ synthState' = synthState
          /\ synthEvents' = synthEvents ]_vars

\* C10: once stopListening has stopped the capture, a recognition result
\* of that capture appends no user turn, does not enter Processing and
\* issues no answer request.
StoppedCaptureResultDiscarded ==
    [][ (recState = "stopped" /\ RecOnResult) =>
          /\ conversation' = conversation
          /\ ~isProcessing'
          /\ inflight' = inflight ]_vars

----------------------------------------------------------------------------
(* Properties of the server (checked under ServerSpec) *)

Arrived(r) == reqs[r].pc = "free" /\ reqs'[r].pc # "free"

\* C4: per caller, once 10 requests have been admitted in the window of
\* the caller's record, a request at a time now <= resetTime is answered
\* 429 by the limiter; a request at a time now > resetTime is admitted and
\* replaces the record by count = 1, resetTime = now + 60 s.
RateLimiterWindow ==
    [][ \A r \in ReqIds : Arrived(r) =>
          LET c == lastCaller'
              rec == rateLimitStore[c]
          IN  /\ (admitted[c] >= 10 /\ now <= rec.resetTime)
                    => /\ reqs'[r].pc = "done"
                       /\ reqs'[r].stage = "rateLimit"
                       /\ reqs'[r].status = 429
              /\ (admitted[c] >= 1 /\ now > rec.resetTime)
                    => /\ reqs'[r].stage # "rateLimit"
                       /\ rateLimitStore'[c] = [count |-> 1, resetTime |-> now + 60000] ]_vars

\* the 11th request of a window, arriving exactly at resetTime, was rejected
EleventhRejectedAtWindowEnd ==
    \E r \in ReqIds :
        /\ reqs[r].stage = "rateLimit"
        /\ reqs[r].status = 429
        /\ lastCaller \in Callers
        /\ admitted[lastCaller] = 10
        /\ now = rateLimitStore[lastCaller].resetTime

\* C5: a request whose upstream fails retryably k <= 2 times and then
\* succeeds is answered 200 with the success value after k + 1 calls; after
\* a retryable failure with k <= 2 the loop goes on; a third retryable
\* failure answers 429 after exactly 3 calls, and no request makes a 4th.
RetryLoopOutcome ==
    \A r \in ReqIds :
        LET q == reqs[r] IN
        /\ q.calls <= 3
        /\ q.last = "result" =>
              /\ q.pc = "done" /\ q.status = 200 /\ q.response \in Responses
              /\ q.fails <= 2 /\ q.calls = q.fails + 1
        /\ (q.last = "quotaError" /\ q.fails <= 2) =>
              /\ q.pc \in {"waiting", "calling"}
              /\ q.calls \in {q.fails, q.fails + 1}
        /\ q.fails >= 3 =>
              /\ q.pc = "done" /\ q.status = 429 /\ q.stage = "upstream"
              /\ q.fails = 3 /\ q.calls = 3

\* a request answered 200 by its third upstream call
SucceededOnThirdCall ==
    \E r \in ReqIds :
        reqs[r].status = 200 /\ reqs[r].fails = 2 /\ reqs[r].calls = 3

\* C6: a non-retryable upstream failure ends the request with 500 at once,
\* whatever is left of the retry budget: the handler neither waits nor
\* calls the upstream again.
FatalFailureEndsRequest ==
    \A r \in ReqIds :
        LET q == reqs[r] IN
        q.last = "otherError" =>
            /\ q.pc = "done" /\ q.status = 500
            /\ q.calls = q.fails + 1

\* a non-retryable failure on the third call, after two retryable ones
FatalOnThirdCall ==
    \E r \in ReqIds :
        reqs[r].last = "otherError" /\ reqs[r].fails = 2 /\ reqs[r].retries = 1

----------------------------------------------------------------------------
(* Progress of the client session (checked under LiveSpec) *)

\* C11: whenever isProcessing is true it is false again later, provided
\* the pending fetch completes, with a response or with a failure.
ProcessingEnds == isProcessing ~> ~isProcessing

\* a request has failed and the session has left Processing
ProcessingLeftOnFailure ==
    /\ ~isProcessing
    /\ inflight = 0
    /\ error = ApiFailMessage

----------------------------------------------------------------------------
(* Properties of request validation (checked under ServerSpec) *)

\* the question is missing, not a string, empty or longer than 1000
BadQuestion(q) == q.kind # "string" \/ q.len = 0 \/ q.len > 1000

\* the caller's window already holds 10 admitted requests
LimitReached(c) == admitted[c] >= 10 /\ now <= rateLimitStore[c].resetTime

\* C12 (as stated): a request with a bad question is answered 400 and
\* makes no upstream call; a request with a good question is never answered
\* 400.
BadQuestionAlways400 ==
    [][ \A r \in ReqIds : Arrived(r) =>
          \A c \in {lastCaller'}, q \in Questions :
          ArriveWith(r, c, q) =>
            IF BadQuestion(q)
            THEN reqs'[r].status = 400 /\ reqs'[r].calls = 0
            ELSE reqs'[r].status # 400 ]_vars

\* C12 (amended): a request with a bad question makes no upstream call and
\* is answered at once, with 400, or with 429 when its caller's window is
\* full; a request with a good question is never answered 400.
BadQuestion400UnlessLimited ==
    [][ \A r \in ReqIds : Arrived(r) =>
          \A c \in {lastCaller'}, q \in Questions :
          ArriveWith(r, c, q) =>
            IF BadQuestion(q)
            THEN /\ reqs'[r].pc = "done" /\ reqs'[r].calls = 0
                 /\ reqs'[r].status = IF LimitReached(c) THEN 429 ELSE 400
            ELSE reqs'[r].status # 400 ]_vars

\* a request refused by the validation, before any upstream call
RefusedByValidation ==
    \E r \in ReqIds :
        /\ reqs[r].stage = "validate" /\ reqs[r].status = 400
        /\ reqs[r].calls = 0 /\ reqs[r].sent = 1

----------------------------------------------------------------------------
(* Properties of the answer request (checked under Spec) *)

\* C13: a recognition result whose transcript is empty or longer than
\* 1000 characters issues no network request; any other result issues
\* exactly one, and a failed request is not issued again.
AskValidatesBeforeSending ==
    [][ /\ RecOnResult =>
              inflight' = IF Len(currentTranscript') = 0 \/ Len(currentTranscript') > 1000
                          THEN inflight ELSE inflight + 1
        /\ AnswerFailed => inflight' = inflight - 1 ]_vars

----------------------------------------------------------------------------
(* Properties of the capture start (checked under Spec) *)

\* C14: a second startListening arriving before the recognizer's start
\* event has been handled begins no second capture and raises no error.
SecondStartIgnored ==
    [][ (ClickMic /\ ~isListening /\ recState = "starting") =>
          /\ recState' = "starting"
          /\ uncaught' = uncaught ]_vars

----------------------------------------------------------------------------
(* Frame of the rate limiter (checked under ServerSpec) *)

\* C15: a request changes no record but its own caller's, a request that
\* the limiter rejects changes no record at all, and no other step of the
\* server touches the store.
LimiterFrame ==
    [][ /\ \A r \in ReqIds : Arrived(r) =>
              /\ \A c \in Callers \ {lastCaller'} :
                    rateLimitStore'[c] = rateLimitStore[c]
              /\ reqs'[r].stage = "rateLimit" => rateLimitStore' = rateLimitStore
        /\ (\A r \in ReqIds : ~Arrived(r)) => rateLimitStore' = rateLimitStore ]_vars

\* one caller has just been rejected while the other caller's window is
\* open and partly used
RejectedBesideOpenWindow ==
    \E r \in ReqIds, c \in Callers :
        /\ reqs[r].stage = "rateLimit" /\ reqs[r].status = 429
        /\ lastCaller \in Callers /\ c # lastCaller
        /\ rateLimitStore[lastCaller].count = 10
        /\ rateLimitStore[c].count \in 1..9

----------------------------------------------------------------------------
(* Burst bound of the rate limiter (checked under LimiterSpec) *)

\* C16: for each caller, at most 20 requests are admitted in any interval
\* of 60 seconds; it is enough to look at the intervals ending now.
BurstBound ==
    \A c \in Callers :
        Len(RecentAdmissions(admitLog[c], now)) <= 20

\* a burst across a window boundary: more than 10 admissions of one caller
\* within 60 seconds
BurstAcrossBoundary ==
    \E c \in Callers : Len(RecentAdmissions(admitLog[c], now)) = 19

----------------------------------------------------------------------------
(* Responses of POST /api/ask (checked under ServerSpec) *)

\* C17: a request is answered at most once, it is finished exactly when
\* its one response has been sent, the status is 200, 400, 429 or 500, and
\* a 200 follows a successful upstream call and carries its text: the
\* retry loop never falls through with no response value.
OneResponsePerRequest ==
    \A r \in ReqIds :
        LET q == reqs[r] IN
        /\ q.sent <= 1
        /\ (q.pc = "done") <=> (q.sent = 1)
        /\ q.pc = "done" => q.status \in {200, 400, 429, 500}
        /\ q.pc # "done" => q.status = 0
        /\ q.status = 200 => q.last = "result" /\ q.response \in Responses

\* a request answered 200 by its second upstream call
AnsweredOnSecondCall ==
    \E r \in ReqIds :
        /\ reqs[r].sent = 1 /\ reqs[r].status = 200
        /\ reqs[r].fails = 1 /\ reqs[r].calls = 2

----------------------------------------------------------------------------
(* C18: at most one answer request is in flight per client session: no second
   fetch is issued before the previous one has completed, whatever the
   interleaving of user actions and recognition callbacks, error events
   included.  isProcessing is the only thing that keeps a second capture from
   starting, and onerror (88-89) clears it without looking at the pending
   fetch. *)
OneRequestInFlight ==
    inflight <= 1

----------------------------------------------------------------------------
(* C19: in every reachable state every Bot turn of the transcript is
   immediately preceded by a User turn, and the transcript never starts with
   a Bot turn.  The continuation of onresult appends the Bot turn to whatever
   the transcript is when the answer arrives (55), and clearConversation
   (166-171) empties the transcript without cancelling the pending request. *)
BotTurnFollowsUserTurn ==
    \A i \in 1..Len(conversation) :
        conversation[i].type = "bot" =>
            (i > 1 /\ conversation[i - 1].type = "user")

----------------------------------------------------------------------------
(* C20: the rate limiter runs before validation, so a request counts toward
   its caller's window whatever its outcome: a request answered 400 has
   taken a place in the caller's window (the count of an open window grows
   by one, an absent or expired window is replaced by one of count 1), and
   once 10 places of the window are taken, whatever the answers were, the
   caller's next request with a valid question is answered 429 by the
   limiter and makes no upstream call. *)
RefusedRequestsCount ==
    [][ \A r \in ReqIds : Arrived(r) =>
          \A c \in {lastCaller'}, q \in Questions :
          ArriveWith(r, c, q) =>
            /\ (reqs'[r].status = 400) =>
                  /\ rateLimitStore'[c] # NoRecord
                  /\ rateLimitStore'[c].count =
                        IF rateLimitStore[c] # NoRecord
                           /\ now <= rateLimitStore[c].resetTime
                        THEN rateLimitStore[c].count + 1
                        ELSE 1
                  /\ admitted'[c] = rateLimitStore'[c].count
            /\ (/\ ~BadQuestion(q)
                /\ rateLimitStore[c] # NoRecord
                /\ rateLimitStore[c].count >= RateLimitMax
                /\ now <= rateLimitStore[c].resetTime) =>
                  /\ reqs'[r].status = 429
                  /\ reqs'[r].stage = "rateLimit"
                  /\ reqs'[r].calls = 0 ]_vars

\* a request answered 400 took the tenth place of its caller's window
TenthPlaceTakenByRefusal ==
    \E r \in ReqIds :
        /\ reqs[r].status = 400
        /\ reqs[r].stage = "validate"
        /\ lastCaller \in Callers
        /\ rateLimitStore[lastCaller] # NoRecord
        /\ rateLimitStore[lastCaller].count = RateLimitMax
        /\ now <= rateLimitStore[lastCaller].resetTime

----------------------------------------------------------------------------
(* Specifications *)

Init == ClientInit /\ ServerInit

Next == ClientNext

Spec == Init /\ [][Next]_vars

ServerSpec == Init /\ [][ServerNext]_vars

\* The fetch of a suspended onresult settles: it resolves or it rejects.
LiveSpec == Init /\ [][Next]_vars /\ WF_vars(AnswerReady \/ AnswerFailed)

LimiterSpec == Init /\ [][LimiterNext]_vars

====
